---- MODULE Spec2Model ----
(***************************************************************************)
(* Selective Repeat sender (A) and receiver (B) of sr.c, as state machines *)
(* driven by the network emulator's events: a message from layer 5, a      *)
(* packet from layer 3, a timer expiry.                                    *)
(***************************************************************************)
EXTENDS Integers, Sequences, FiniteSets, TLC

WINDOWSIZE == 6
SEQSPACE == 12
NOTINUSE == -1
PayloadLen == 20

\* Bounds of the model.
MaxData == 2            \* message bytes are drawn from 1..MaxData
MaxWindowFull == 1      \* cap on the window_full counter
MaxNewAcks == 7         \* cap on the new_ACKs counter
MaxDupAcks == 1         \* cap on total_ACKs_received - new_ACKs
MaxResent == 6          \* cap on the packets_resent counter
MaxReceived == 7        \* cap on the packets_received counter
MaxHeld == 1            \* B holds at most MaxHeld packets ahead of rcv_base

\* A: the sender's variables (buffer, windowfirst, windowlast, windowcount,
\*    A_nextseqnum, acked), the emulator's counters it increments, its timer,
\*    and what its latest call sent (layer3) and printed (trace).
\* B: the receiver's variables (expectedseqnum, B_nextseqnum, rcvbuffer,
\*    received, rcv_base), the packets_received counter, and what its latest
\*    call sent (layer3), delivered (layer5) and printed (trace).
\* inbox, due: the packets B accepted and the payloads its latest call owed
\*    the application (history, used to state what delivery must be).
\* toB, toA: the packets in flight from A to B and from B to A, oldest first
\*    (used only when A and B run together over the network).
\* sent, passed, reached, faults: history of a joint run: how many messages A
\*    accepted, how many sequence numbers rcv_base moved past, which messages
\*    reached B uncorrupted, how many packets the network lost or damaged.
VARIABLES A, B, inbox, due, toB, toA, sent, passed, reached, faults
net == <<toB, toA, sent, passed, reached, faults>>
vars == <<A, B, inbox, due, toB, toA, sent, passed, reached, faults>>

(***************************************************************************)
(* Packets, messages and the checksum.                                     *)
(***************************************************************************)
\* A message or payload is PayloadLen bytes.  Layer 5 fills a message with
\* one repeated byte and an acknowledgment carries zeros, so a payload is
\* represented by that byte: Fill(d) stands for the array of PayloadLen
\* bytes d.
Fill(d) == d

\* The sum of the PayloadLen bytes of a payload.
PayloadSum(payload) == PayloadLen * payload

ComputeChecksum(packet) ==
  packet.seqnum + packet.acknum + PayloadSum(packet.payload)

\* A corruption test that trusts every packet.
IsCorrupted_never(packet) == FALSE

IsCorrupted(packet) ==
  IF packet.checksum = ComputeChecksum(packet) THEN FALSE ELSE TRUE

\* A zero-filled packet: the content of a static array before any store.
ZeroPkt == [seqnum |-> 0, acknum |-> 0, checksum |-> 0, payload |-> Fill(0)]

(***************************************************************************)
(* The emulator's services, acting on the record of the calling entity.    *)
(* layer3 / layer5 / trace collect what one call of a handler hands to the *)
(* network, hands to the application and prints.                           *)
(***************************************************************************)
tolayer3(s, packet) == [s EXCEPT !.layer3 = Append(@, packet)]

tolayer5(s, payload) == [s EXCEPT !.layer5 = Append(@, payload)]

printf(s, text) == [s EXCEPT !.trace = Append(@, text)]

\* Starting a running timer and stopping a stopped one are caller errors:
\* the timer is left as it is and the error is remembered.
starttimer(s) == [s EXCEPT !.timer = TRUE, !.timer_misuse = @ \/ s.timer]

stoptimer(s) == [s EXCEPT !.timer = FALSE, !.timer_misuse = @ \/ ~s.timer]

\* Entry of a handler: nothing sent, delivered or printed yet by this call.
EnterA(s) == [s EXCEPT !.layer3 = <<>>, !.trace = <<>>]

EnterB(s) == [s EXCEPT !.layer3 = <<>>, !.layer5 = <<>>, !.trace = <<>>]

(***************************************************************************)
(* Sender (A).                                                             *)
(***************************************************************************)
A_init ==
  [buffer |-> [i \in 0..(WINDOWSIZE - 1) |-> ZeroPkt],
   windowfirst |-> 0,
   windowlast |-> -1,
   windowcount |-> 0,
   A_nextseqnum |-> 0,
   acked |-> [i \in 0..(SEQSPACE - 1) |-> FALSE],
   window_full |-> 0,
   total_ACKs_received |-> 0,
   new_ACKs |-> 0,
   packets_resent |-> 0,
   timer |-> FALSE,
   timer_misuse |-> FALSE,
   layer3 |-> <<>>,
   trace |-> <<>>]

\* A window test that lets one packet too many in.
A_output_notblocked_offbyone(s) == s.windowcount <= WINDOWSIZE

\* The window test of A_output: not blocked waiting on an acknowledgment.
A_output_notblocked(s) == s.windowcount < WINDOWSIZE

\* The packet A_output creates for a message.
A_output_sendpkt(seqnum, message) ==
  LET hdr == [seqnum |-> seqnum, acknum |-> NOTINUSE, checksum |-> 0,
              payload |-> message]
  IN [hdr EXCEPT !.checksum = ComputeChecksum(hdr)]

\* A full window that still uses up a sequence number.
A_output_blocked_skips(s, message) ==
  [printf(s, "send window is full")
     EXCEPT !.window_full = @ + 1, !.A_nextseqnum = (@ + 1) % SEQSPACE]

\* A full window that still hands the message to the network.
A_output_blocked_sends(s, message) ==
  [tolayer3(printf(s, "send window is full"),
            A_output_sendpkt(s.A_nextseqnum, message))
     EXCEPT !.window_full = @ + 1]

\* A_output when the window is full.
A_output_blocked(s, message) ==
  [printf(s, "send window is full") EXCEPT !.window_full = @ + 1]

\* An A_output that hands every new packet to the network twice.
A_output_sendstwice(s0, message) ==
  LET s == EnterA(s0) IN
  IF A_output_notblocked(s) THEN
    LET sendpkt == A_output_sendpkt(s.A_nextseqnum, message)
        last == (s.windowlast + 1) % WINDOWSIZE
        s1 == [s EXCEPT !.windowlast = last,
                        !.buffer[last] = sendpkt,
                        !.windowcount = @ + 1,
                        !.acked[sendpkt.seqnum] = FALSE]
        s2 == tolayer3(tolayer3(printf(s1, "Sending packet"), sendpkt),
                       sendpkt)
        s3 == IF s2.windowcount = 1 THEN starttimer(s2) ELSE s2
    IN [s3 EXCEPT !.A_nextseqnum = (@ + 1) % SEQSPACE]
  ELSE A_output_blocked(s, message)

A_output(s0, message) ==
  LET s == EnterA(s0) IN
  IF A_output_notblocked(s) THEN
    LET sendpkt == A_output_sendpkt(s.A_nextseqnum, message)
        last == (s.windowlast + 1) % WINDOWSIZE
        s1 == [s EXCEPT !.windowlast = last,
                        !.buffer[last] = sendpkt,
                        !.windowcount = @ + 1,
                        !.acked[sendpkt.seqnum] = FALSE]
        s2 == tolayer3(printf(s1, "Sending packet"), sendpkt)
        s3 == IF s2.windowcount = 1 THEN starttimer(s2) ELSE s2
    IN [s3 EXCEPT !.A_nextseqnum = (@ + 1) % SEQSPACE]
  ELSE A_output_blocked(s, message)

\* A search loop that does not look at the acknowledgment flag.
RECURSIVE A_input_find_noflag(_, _, _)
A_input_find_noflag(s, packet, i) ==
  IF i < s.windowcount THEN
    LET idx == (s.windowfirst + i) % WINDOWSIZE IN
    IF s.buffer[idx].seqnum = packet.acknum THEN
      [st |-> [printf(s, "ACK is not a duplicate")
                 EXCEPT !.acked[packet.acknum] = TRUE, !.new_ACKs = @ + 1],
       can_slide |-> (idx = s.windowfirst)]
    ELSE A_input_find_noflag(s, packet, i + 1)
  ELSE [st |-> s, can_slide |-> FALSE]

\* The search loop of A_input, from position i of the window on.
RECURSIVE A_input_find(_, _, _)
A_input_find(s, packet, i) ==
  IF i < s.windowcount THEN
    LET idx == (s.windowfirst + i) % WINDOWSIZE IN
    IF s.buffer[idx].seqnum = packet.acknum /\ ~s.acked[packet.acknum] THEN
      [st |-> [printf(s, "ACK is not a duplicate")
                 EXCEPT !.acked[packet.acknum] = TRUE, !.new_ACKs = @ + 1],
       can_slide |-> (idx = s.windowfirst)]
    ELSE A_input_find(s, packet, i + 1)
  ELSE [st |-> s, can_slide |-> FALSE]

\* A slide that drops nothing.
A_input_slide_none(s) == s

\* A slide that drops the head only.
A_input_slide_one(s) ==
  IF s.windowcount > 0 /\ s.acked[s.buffer[s.windowfirst].seqnum] THEN
    [s EXCEPT !.windowfirst = (@ + 1) % WINDOWSIZE, !.windowcount = @ - 1]
  ELSE s

\* The slide loop of A_input.
RECURSIVE A_input_slide(_)
A_input_slide(s) ==
  IF s.windowcount > 0 /\ s.acked[s.buffer[s.windowfirst].seqnum] THEN
    A_input_slide([s EXCEPT !.windowfirst = (@ + 1) % WINDOWSIZE,
                            !.windowcount = @ - 1])
  ELSE s

\* The window test of A_input.
A_input_inwindow(s, packet) ==
  LET seqfirst == s.buffer[s.windowfirst].seqnum
      seqlast == s.buffer[s.windowlast].seqnum
  IN \/ (seqfirst <= seqlast
           /\ (packet.acknum >= seqfirst /\ packet.acknum <= seqlast))
     \/ (seqfirst > seqlast
           /\ (packet.acknum >= seqfirst \/ packet.acknum <= seqlast))

\* A timer handling that restarts the timer without stopping it.
A_input_restart_nostop(s) == IF s.windowcount > 0 THEN starttimer(s) ELSE s

\* The timer handling of A_input after a slide.
A_input_restart(s) ==
  LET s2 == stoptimer(s) IN
  IF s2.windowcount > 0 THEN starttimer(s2) ELSE s2

A_input(s0, packet) ==
  LET s == EnterA(s0) IN
  IF ~IsCorrupted(packet) THEN
    LET s1 == [printf(s, "uncorrupted ACK is received")
                 EXCEPT !.total_ACKs_received = @ + 1]
    IN
    IF s1.windowcount # 0 THEN
      IF A_input_inwindow(s1, packet) THEN
        LET found == A_input_find(s1, packet, 0) IN
        IF found.can_slide THEN A_input_restart(A_input_slide(found.st))
        ELSE found.st
      ELSE s1
    ELSE printf(s1, "duplicate ACK received, do nothing!")
  ELSE printf(s, "corrupted ACK is received, do nothing!")

\* A resend loop that resends the whole window (Go-Back-N).
RECURSIVE A_timerinterrupt_resend_all(_, _)
A_timerinterrupt_resend_all(s, i) ==
  IF i < s.windowcount THEN
    LET idx == (s.windowfirst + i) % WINDOWSIZE IN
    A_timerinterrupt_resend_all(
      [tolayer3(printf(s, "resending packet"), s.buffer[idx])
         EXCEPT !.packets_resent = @ + 1], i + 1)
  ELSE s

\* A resend loop that resends only the oldest unacknowledged packet.
RECURSIVE A_timerinterrupt_resend_oldest(_, _)
A_timerinterrupt_resend_oldest(s, i) ==
  IF i < s.windowcount THEN
    LET idx == (s.windowfirst + i) % WINDOWSIZE IN
    IF ~s.acked[s.buffer[idx].seqnum] THEN
      [tolayer3(printf(s, "resending packet"), s.buffer[idx])
         EXCEPT !.packets_resent = @ + 1]
    ELSE A_timerinterrupt_resend_oldest(s, i + 1)
  ELSE s

\* A resend loop that resends nothing.
A_timerinterrupt_resend_none(s, i) == s

\* The resend loop of A_timerinterrupt, from position i of the window on.
RECURSIVE A_timerinterrupt_resend(_, _)
A_timerinterrupt_resend(s, i) ==
  IF i < s.windowcount THEN
    LET idx == (s.windowfirst + i) % WINDOWSIZE IN
    IF ~s.acked[s.buffer[idx].seqnum] THEN
      A_timerinterrupt_resend(
        [tolayer3(printf(s, "resending packet"), s.buffer[idx])
           EXCEPT !.packets_resent = @ + 1], i + 1)
    ELSE A_timerinterrupt_resend(s, i + 1)
  ELSE s

\* An A_timerinterrupt that leaves the timer stopped.
A_timerinterrupt_norestart(s0) ==
  A_timerinterrupt_resend(
    printf(EnterA(s0), "time out, resend unACKed packets!"), 0)

A_timerinterrupt(s0) ==
  LET s == printf(EnterA(s0), "time out, resend unACKed packets!")
      s1 == A_timerinterrupt_resend(s, 0)
  IN IF s1.windowcount > 0 THEN starttimer(s1) ELSE s1

(***************************************************************************)
(* Receiver (B).                                                           *)
(***************************************************************************)
B_init ==
  [expectedseqnum |-> 0,
   B_nextseqnum |-> 1,
   rcvbuffer |-> [i \in 0..(WINDOWSIZE - 1) |-> ZeroPkt],
   received |-> [i \in 0..(SEQSPACE - 1) |-> FALSE],
   rcv_base |-> 0,
   packets_received |-> 0,
   layer3 |-> <<>>,
   layer5 |-> <<>>,
   trace |-> <<>>]

\* An acknowledgment that names the number after acknum.
B_input_ackpkt_next(acknum) ==
  LET hdr == [seqnum |-> NOTINUSE, acknum |-> (acknum + 1) % SEQSPACE,
              checksum |-> 0, payload |-> Fill(0)]
  IN [hdr EXCEPT !.checksum = ComputeChecksum(hdr)]

\* The acknowledgment B builds for acknowledgment number acknum.
B_input_ackpkt(acknum) ==
  LET hdr == [seqnum |-> NOTINUSE, acknum |-> acknum, checksum |-> 0,
              payload |-> Fill(0)]
  IN [hdr EXCEPT !.checksum = ComputeChecksum(hdr)]

\* A window test that lets every packet in.
B_input_inwindow_all(s, packet) == TRUE

\* A window test without the lower end of an unwrapped window.
B_input_inwindow_nolower(s, packet) ==
  LET rcv_end == (s.rcv_base + WINDOWSIZE - 1) % SEQSPACE IN
  \/ (s.rcv_base <= rcv_end /\ packet.seqnum <= rcv_end)
  \/ (s.rcv_base > rcv_end
        /\ (packet.seqnum >= s.rcv_base \/ packet.seqnum <= rcv_end))

\* The window test of B_input.
B_input_inwindow(s, packet) ==
  LET rcv_end == (s.rcv_base + WINDOWSIZE - 1) % SEQSPACE IN
  \/ (s.rcv_base <= rcv_end /\ packet.seqnum >= s.rcv_base
        /\ packet.seqnum <= rcv_end)
  \/ (s.rcv_base > rcv_end
        /\ (packet.seqnum >= s.rcv_base \/ packet.seqnum <= rcv_end))

\* The delivery loop of B_input.
RECURSIVE B_input_deliver(_)
B_input_deliver(s) ==
  IF s.received[s.rcv_base] THEN
    LET slot == (s.rcv_base - s.rcv_base + SEQSPACE) % SEQSPACE
        s1 == tolayer5(s, s.rcvbuffer[slot].payload)
    IN B_input_deliver([s1 EXCEPT !.received[s.rcv_base] = FALSE,
                                  !.rcv_base = (@ + 1) % SEQSPACE])
  ELSE s

\* A NAK number that does not wrap around.
B_input_nakacknum_nowrap(s) == s.rcv_base - 1

\* A NAK number that names the packet B is waiting for.
B_input_nakacknum_base(s) == s.rcv_base

\* The acknowledgment number of the NAK of B_input.
B_input_nakacknum(s) == IF s.rcv_base # 0 THEN s.rcv_base - 1 ELSE SEQSPACE - 1

B_input(s0, packet) ==
  LET s == EnterB(s0) IN
  IF ~IsCorrupted(packet) THEN
    IF B_input_inwindow(s, packet) THEN
      LET slot == (packet.seqnum - s.rcv_base + SEQSPACE) % SEQSPACE
          s1 == [printf(s, "packet is correctly received, send ACK!")
                   EXCEPT !.packets_received = @ + 1,
                          !.received[packet.seqnum] = TRUE,
                          !.rcvbuffer[slot] = packet]
          s2 == tolayer3(s1, B_input_ackpkt(packet.seqnum))
      IN B_input_deliver(s2)
    ELSE
      tolayer3(printf(s, "packet outside receive window, send ACK!"),
               B_input_ackpkt(packet.seqnum))
  ELSE
    tolayer3(printf(s, "packet is corrupted, send NAK!"),
             B_input_ackpkt(B_input_nakacknum(s)))

(***************************************************************************)
(* The events that drive the sender: what layer 5, layer 3 and the timer   *)
(* may hand to A.                                                          *)
(***************************************************************************)
\* Acknowledgment numbers an arriving packet may carry: the sequence
\* numbers, the unused value and one value past the sequence space.
AckNums == NOTINUSE..SEQSPACE

\* A packet damaged in transit: its checksum no longer matches.
Damaged(packet) == [packet EXCEPT !.checksum = @ + 1]

\* The packets layer 3 may hand to A: an acknowledgment as B builds it, with
\* its checksum intact or damaged in transit.
AckPkt(acknum) == B_input_ackpkt(acknum)

PacketsToA ==
  {AckPkt(a) : a \in AckNums} \cup {Damaged(AckPkt(a)) : a \in AckNums}

\* The messages layer 5 may offer to A: successive accepted messages differ,
\* the message that gets sequence number q is filled with 1 + q % MaxData.
DataFor(seqnum) == 1 + (seqnum % MaxData)

Messages(s) == {Fill(DataFor(s.A_nextseqnum))}

\* The counters stay within the model's bounds.
BoundedA(s) ==
  /\ s.window_full <= MaxWindowFull
  /\ s.new_ACKs <= MaxNewAcks
  /\ s.total_ACKs_received - s.new_ACKs <= MaxDupAcks
  /\ s.packets_resent <= MaxResent

Send ==
  \E message \in Messages(A) :
    /\ A' = A_output(A, message)
    /\ BoundedA(A')
    /\ UNCHANGED <<B, inbox, due, net>>

AckArrives ==
  \E packet \in PacketsToA :
    /\ A' = A_input(A, packet)
    /\ BoundedA(A')
    /\ UNCHANGED <<B, inbox, due, net>>

\* The timer goes off only while it is running, and is then no longer running.
Timeout ==
  /\ A.timer
  /\ A' = A_timerinterrupt([A EXCEPT !.timer = FALSE])
  /\ BoundedA(A')
  /\ UNCHANGED <<B, inbox, due, net>>

(***************************************************************************)
(* The events that drive the receiver.                                     *)
(***************************************************************************)
\* The packets layer 3 may hand to B: a data packet as A builds it, with its
\* checksum intact or damaged in transit.
DataPkt(seqnum) == A_output_sendpkt(seqnum, Fill(DataFor(seqnum)))

DataPkts == {DataPkt(q) : q \in 0..(SEQSPACE - 1)}

PacketsToB == DataPkts \cup {Damaged(p) : p \in DataPkts}

BoundedB(s) ==
  /\ s.packets_received <= MaxReceived
  /\ Cardinality({q \in 0..(SEQSPACE - 1) : s.received[q]}) <= MaxHeld

\* What B has been given, kept beside B to state what the application is
\* owed.  inbox: for each sequence number, the payload of the packet of that
\* number that B accepted into its window and has not yet passed in delivery
\* (Fill(0) when there is none).  due: the payloads of the sequence numbers
\* that the latest call of B_input passed, in order.
Accepts(s, packet) == ~IsCorrupted(packet) /\ B_input_inwindow(s, packet)

Accepted(box, s, packet) ==
  IF Accepts(s, packet) THEN [box EXCEPT ![packet.seqnum] = packet.payload]
  ELSE box

RECURSIVE Passed(_, _, _)
Passed(box, base, n) ==
  IF n = 0 THEN box
  ELSE Passed([box EXCEPT ![base] = Fill(0)], (base + 1) % SEQSPACE, n - 1)

Owed(box, base, n) == [k \in 1..n |-> box[(base + k - 1) % SEQSPACE]]

\* How many sequence numbers a call moved rcv_base forward.
Advance(s, t) == (t.rcv_base - s.rcv_base + SEQSPACE) % SEQSPACE

DataArrives ==
  \E packet \in PacketsToB :
    /\ B' = B_input(B, packet)
    /\ BoundedB(B')
    /\ due' = Owed(Accepted(inbox, B, packet), B.rcv_base, Advance(B, B'))
    /\ inbox' = Passed(Accepted(inbox, B, packet), B.rcv_base, Advance(B, B'))
    /\ UNCHANGED <<A, net>>

Init ==
  /\ A = A_init
  /\ B = B_init
  /\ inbox = [q \in 0..(SEQSPACE - 1) |-> Fill(0)]
  /\ due = <<>>
  /\ toB = <<>>
  /\ toA = <<>>
  /\ sent = 0
  /\ passed = 0
  /\ reached = {}
  /\ faults = 0

NextA == Send \/ AckArrives \/ Timeout

SpecA == Init /\ [][NextA]_vars

NextB == DataArrives

SpecB == Init /\ [][NextB]_vars

(***************************************************************************)
(* A and B together over the network: two channels that keep the order of  *)
(* the packets and may lose or damage them.                                *)
(***************************************************************************)
MaxMessages == 13       \* messages A accepts in a joint run
MaxFaults == 2          \* packets the network loses or damages in a joint run
MaxRetransmitted == 1   \* packets A resends in a joint run

\* The messages of a joint run all differ: the n-th message accepted (from 0)
\* is filled with the byte 1 + n, and MsgOf reads that number back from a
\* data packet.
Message(n) == Fill(1 + n)

MsgOf(packet) == packet.payload - 1

\* A packet as it comes out of the network.
Garbled(packet, damaged) == IF damaged THEN Damaged(packet) ELSE packet

\* Layer 5 gives A a message; what A sends enters the channel to B.
FromLayer5 ==
  /\ sent < MaxMessages
  /\ A' = A_output(A, Message(sent))
  /\ A'.window_full <= MaxWindowFull
  /\ toB' = toB \o A'.layer3
  /\ sent' = IF A_output_notblocked(A) THEN sent + 1 ELSE sent
  /\ UNCHANGED <<B, inbox, due, toA, passed, reached, faults>>

\* The timer of A goes off; what A resends enters the channel to B.
TimerInterrupt ==
  /\ A.timer
  /\ A' = A_timerinterrupt([A EXCEPT !.timer = FALSE])
  /\ A'.packets_resent <= MaxRetransmitted
  /\ toB' = toB \o A'.layer3
  /\ UNCHANGED <<B, inbox, due, toA, sent, passed, reached, faults>>

\* The oldest packet in flight to B arrives, intact or damaged; what B
\* answers enters the channel to A.
FromLayer3B ==
  /\ toB # <<>>
  /\ \E damaged \in BOOLEAN :
       LET packet == Garbled(Head(toB), damaged) IN
       /\ damaged => faults < MaxFaults
       /\ B' = B_input(B, packet)
       /\ toB' = Tail(toB)
       /\ toA' = toA \o B'.layer3
       /\ due' = Owed(Accepted(inbox, B, packet), B.rcv_base, Advance(B, B'))
       /\ inbox' =
            Passed(Accepted(inbox, B, packet), B.rcv_base, Advance(B, B'))
       /\ passed' = passed + Advance(B, B')
       /\ reached' = IF damaged THEN reached ELSE reached \cup {MsgOf(packet)}
       /\ faults' = IF damaged THEN faults + 1 ELSE faults
       /\ UNCHANGED <<A, sent>>

\* The oldest packet in flight to A arrives, intact or damaged.
FromLayer3A ==
  /\ toA # <<>>
  /\ \E damaged \in BOOLEAN :
       /\ damaged => faults < MaxFaults
       /\ A' = A_input(A, Garbled(Head(toA), damaged))
       /\ toA' = Tail(toA)
       /\ faults' = IF damaged THEN faults + 1 ELSE faults
       /\ UNCHANGED <<B, inbox, due, toB, sent, passed, reached>>

\* The network loses the oldest packet in flight to B, or to A.
LostToB ==
  /\ toB # <<>>
  /\ faults < MaxFaults
  /\ toB' = Tail(toB)
  /\ faults' = faults + 1
  /\ UNCHANGED <<A, B, inbox, due, toA, sent, passed, reached>>

LostToA ==
  /\ toA # <<>>
  /\ faults < MaxFaults
  /\ toA' = Tail(toA)
  /\ faults' = faults + 1
  /\ UNCHANGED <<A, B, inbox, due, toB, sent, passed, reached>>

Next ==
  \/ FromLayer5
  \/ TimerInterrupt
  \/ FromLayer3B
  \/ FromLayer3A
  \/ LostToB
  \/ LostToA

Spec == Init /\ [][Next]_vars

MaxFairMessages == 3    \* messages A accepts in a joint run under fairness

\* The same system under fairness: the timer goes off only after every packet
\* in flight has arrived or been lost, and goes off whenever it is left
\* running; a packet in flight eventually arrives or is lost; the network
\* loses or damages at most MaxFaults packets.
FairFromLayer5 == FromLayer5 /\ sent < MaxFairMessages

TimerExpires ==
  /\ A.timer
  /\ toB = <<>>
  /\ toA = <<>>
  /\ A' = A_timerinterrupt([A EXCEPT !.timer = FALSE])
  /\ toB' = toB \o A'.layer3
  /\ UNCHANGED <<B, inbox, due, toA, sent, passed, reached, faults>>

NextFair ==
  \/ FairFromLayer5
  \/ TimerExpires
  \/ FromLayer3B
  \/ FromLayer3A
  \/ LostToB
  \/ LostToA

SpecFair ==
  /\ Init
  /\ [][NextFair]_vars
  /\ WF_vars(TimerExpires)
  /\ WF_vars(FromLayer3B)
  /\ WF_vars(FromLayer3A)

(***************************************************************************)
(* Properties of the receiver's delivery.                                  *)
(***************************************************************************)
\* C1: every call of B_input hands to the application exactly the payloads
\* of the packets accepted for the sequence numbers rcv_base passes over, in
\* order: the payload delivered for a sequence number is the payload of the
\* packet that carried that number.
C1_DeliversOwedPayloads == B.layer5 = due

\* The sequence numbers of the receive window.
RcvWindow(s) == {(s.rcv_base + k) % SEQSPACE : k \in 0..(WINDOWSIZE - 1)}

\* What B keeps between calls.
Kept(s) == <<s.rcv_base, s.received, s.rcvbuffer, s.packets_received>>

\* The one packet a call handed to the network is an intact acknowledgment
\* of acknum.
SentAck(s, acknum) ==
  /\ Len(s.layer3) = 1
  /\ s.layer3[1].acknum = acknum
  /\ s.layer3[1].seqnum = NOTINUSE
  /\ s.layer3[1].payload = Fill(0)
  /\ s.layer3[1].checksum = acknum + NOTINUSE

\* C8: B_input answers every uncorrupted packet with exactly one
\* acknowledgment of the packet's own sequence number; a packet whose number
\* is outside the receive window changes nothing else and nothing is
\* delivered.
C8_EveryPacketAcked ==
  \A packet \in DataPkts :
    LET got == B_input(B, packet) IN
    /\ SentAck(got, packet.seqnum)
    /\ packet.seqnum \notin RcvWindow(B) =>
         (Kept(got) = Kept(B) /\ got.layer5 = <<>>)

\* A packet already delivered has just been acknowledged again, with the
\* receive window wrapped around the end of the sequence space.
C8_Witness ==
  /\ B.trace = <<"packet outside receive window, send ACK!">>
  /\ B.rcv_base + WINDOWSIZE > SEQSPACE
  /\ B.layer3[1].acknum = B.rcv_base - 1

\* C9: B_input answers a corrupted packet with exactly one acknowledgment of
\* the number before rcv_base in the sequence space, delivers nothing and
\* keeps its state.
C9_CorruptedPacketNaked ==
  \A packet \in DataPkts :
    LET got == B_input(B, Damaged(packet)) IN
    /\ SentAck(got, (B.rcv_base + SEQSPACE - 1) % SEQSPACE)
    /\ Kept(got) = Kept(B)
    /\ got.layer5 = <<>>

\* A corrupted packet has just been answered before anything was delivered,
\* while a later packet is held.
C9_Witness ==
  /\ B.trace = <<"packet is corrupted, send NAK!">>
  /\ B.rcv_base = 0
  /\ B.layer3[1].acknum = SEQSPACE - 1
  /\ \E q \in 0..(SEQSPACE - 1) : B.received[q]

(***************************************************************************)
(* Properties of the sender.                                               *)
(***************************************************************************)
\* C2: the number of packets awaiting an acknowledgment stays within
\* 0..WINDOWSIZE, and the sequence space is at least twice the window.
C2_WindowCountInRange ==
  /\ 0 <= A.windowcount
  /\ A.windowcount <= WINDOWSIZE
  /\ SEQSPACE >= 2 * WINDOWSIZE

\* The window is full, with sequence numbers that wrapped around, and a
\* further message has just been refused.
C2_Witness ==
  /\ A.windowcount = WINDOWSIZE
  /\ A.buffer[A.windowfirst].seqnum > A.buffer[A.windowlast].seqnum
  /\ A.trace = <<"send window is full">>

\* The packets of the sender window, oldest first, and their numbers.
WindowPkts(s) ==
  [i \in 1..s.windowcount |-> s.buffer[(s.windowfirst + i - 1) % WINDOWSIZE]]

WindowSeqs(s) == {WindowPkts(s)[i].seqnum : i \in 1..s.windowcount}

\* The window, the buffer, the next sequence number and the flags.
Protocol(s) ==
  <<s.buffer, s.windowfirst, s.windowlast, s.windowcount, s.A_nextseqnum,
    s.acked>>

Counters(s) ==
  <<s.window_full, s.total_ACKs_received, s.new_ACKs, s.packets_resent>>

Timer(s) == <<s.timer, s.timer_misuse>>

\* C3: an acknowledgment flag, once set, is cleared only by A_output giving
\* that sequence number to a new message, and a packet whose flag is set is
\* never handed to the network: the only transmission of a flagged sequence
\* number is the first transmission of the new message that takes it.
C3_AckedNeverResent ==
  [][/\ \A q \in 0..(SEQSPACE - 1) :
          (A.acked[q] /\ ~A'.acked[q]) =>
             (Send /\ A.A_nextseqnum = q /\ A.windowcount < WINDOWSIZE)
     /\ \A i \in 1..Len(A'.layer3) :
          A.acked[A'.layer3[i].seqnum] =>
             (Send /\ A'.layer3[i].seqnum = A.A_nextseqnum)]_vars

\* A timeout has just resent part of a window that holds acknowledged
\* packets.
C3_Witness ==
  /\ A.trace # <<>>
  /\ A.trace[1] = "time out, resend unACKed packets!"
  /\ Len(A.layer3) >= 1
  /\ \E i \in 1..A.windowcount : A.acked[WindowPkts(A)[i].seqnum]

\* C4: a timeout hands to the network exactly the packets of the window whose
\* flag is false, once each and oldest first, changes neither the window nor
\* the flags, counts the resent packets and restarts the timer when the
\* window is not empty.
C4_TimeoutResendsUnacked ==
  [][Timeout =>
       LET Unacked(p) == ~A.acked[p.seqnum] IN
       /\ A'.layer3 = SelectSeq(WindowPkts(A), Unacked)
       /\ Protocol(A') = Protocol(A)
       /\ A'.timer = (A.windowcount > 0)
       /\ A'.timer_misuse = A.timer_misuse
       /\ A'.packets_resent = A.packets_resent + Len(A'.layer3)
       /\ A'.window_full = A.window_full
       /\ A'.total_ACKs_received = A.total_ACKs_received
       /\ A'.new_ACKs = A.new_ACKs]_vars

\* A timeout has just resent several packets and skipped others.
C4_Witness ==
  /\ A.trace # <<>>
  /\ A.trace[1] = "time out, resend unACKed packets!"
  /\ Len(A.layer3) >= 2
  /\ Len(A.layer3) < A.windowcount
  /\ A.timer

\* C5: A_output on a full window sends nothing, stores nothing, leaves the
\* timer alone and only counts the refusal.
C5_FullWindowDrops ==
  [][\A message \in Messages(A) :
       (A.windowcount = WINDOWSIZE /\ A' = A_output(A, message)) =>
          /\ A'.layer3 = <<>>
          /\ Protocol(A') = Protocol(A)
          /\ Timer(A') = Timer(A)
          /\ A'.window_full = A.window_full + 1
          /\ A'.total_ACKs_received = A.total_ACKs_received
          /\ A'.new_ACKs = A.new_ACKs
          /\ A'.packets_resent = A.packets_resent]_vars

\* A message has just been refused by a full window.
C5_Witness ==
  /\ A.trace = <<"send window is full">>
  /\ A.windowcount = WINDOWSIZE
  /\ A.window_full >= 1

\* C6: the sender never starts a running timer and never stops a stopped one.
C6_NoTimerMisuse == ~A.timer_misuse

\* An acknowledgment has just slid the window and restarted the timer, after
\* an earlier timeout.
C6_Witness ==
  /\ A.trace = <<"uncorrupted ACK is received", "ACK is not a duplicate">>
  /\ A.windowfirst # 0
  /\ A.windowcount > 0
  /\ A.timer
  /\ A.packets_resent > 0

\* An acknowledgment number that A_input has nothing to do for.
NoOpAck(s, acknum) ==
  \/ s.windowcount = 0
  \/ acknum \notin WindowSeqs(s)
  \/ s.acked[acknum]

\* C7: an uncorrupted acknowledgment for a number outside the window, for a
\* packet already flagged, or on an empty window changes nothing but the
\* count of acknowledgments received; and a second delivery of any
\* uncorrupted acknowledgment leaves the state its first delivery left.
C7_DuplicateAckIsNoOp ==
  \A acknum \in AckNums :
    LET once == A_input(A, AckPkt(acknum))
        twice == A_input(once, AckPkt(acknum))
    IN /\ NoOpAck(A, acknum) =>
            /\ Protocol(once) = Protocol(A)
            /\ Timer(once) = Timer(A)
            /\ once.layer3 = <<>>
            /\ once.total_ACKs_received = A.total_ACKs_received + 1
            /\ once.window_full = A.window_full
            /\ once.new_ACKs = A.new_ACKs
            /\ once.packets_resent = A.packets_resent
       /\ Protocol(twice) = Protocol(once)
       /\ Timer(twice) = Timer(once)
       /\ twice.layer3 = <<>>
       /\ twice.new_ACKs = once.new_ACKs

\* An uncorrupted acknowledgment has just been received that acknowledged
\* nothing new, while the window holds a flagged packet.
C7_Witness ==
  /\ A.trace = <<"uncorrupted ACK is received">>
  /\ A.total_ACKs_received > A.new_ACKs
  /\ \E i \in 1..A.windowcount : A.acked[WindowPkts(A)[i].seqnum]

\* C10: a corrupted packet given to A_input changes nothing in the sender and
\* nothing is sent.
C10_CorruptedAckIgnored ==
  \A acknum \in AckNums :
    LET got == A_input(A, Damaged(AckPkt(acknum))) IN
    /\ Protocol(got) = Protocol(A)
    /\ Timer(got) = Timer(A)
    /\ Counters(got) = Counters(A)
    /\ got.layer3 = <<>>

\* A corrupted packet has just been discarded while packets are outstanding.
C10_Witness ==
  /\ A.trace = <<"corrupted ACK is received, do nothing!">>
  /\ A.windowcount > 0
  /\ A.timer

(***************************************************************************)
(* Properties of A and B together.                                         *)
(***************************************************************************)
\* No packet was lost or damaged and the timer never went off.
Clean(s, lost) == lost = 0 /\ s.packets_resent = 0

\* The data packets of messages from..(to - 1), and the acknowledgments of
\* their sequence numbers, in order.
DataRun(from, to) ==
  [k \in 1..(to - from) |->
     A_output_sendpkt((from + k - 1) % SEQSPACE, Message(from + k - 1))]

AckRun(from, to) ==
  [k \in 1..(to - from) |-> B_input_ackpkt((from + k - 1) % SEQSPACE)]

\* C11: while the first WINDOWSIZE messages are given to A, nothing is lost or
\* damaged and the timer does not go off, the packets A sends carry the
\* sequence numbers 0, 1, 2, ... in order, each handed to the network once;
\* the packets in flight to B are exactly the ones B has not yet been given
\* and the acknowledgments in flight to A answer them in the same order;
\* every acknowledgment A processes is for the next number, slides the window
\* by one, and the one that empties the window leaves the timer stopped.
C11_CleanRun ==
  [][(Clean(A', faults') /\ sent' <= WINDOWSIZE) =>
       /\ toB' = DataRun(B'.packets_received, sent')
       /\ toA' = AckRun(A'.total_ACKs_received, B'.packets_received)
       /\ FromLayer5 =>
            A'.layer3 =
              IF A.windowcount < WINDOWSIZE
                THEN <<A_output_sendpkt(sent, Message(sent))>> ELSE <<>>
       /\ FromLayer3A =>
            /\ Head(toA).acknum = A.new_ACKs
            /\ A'.new_ACKs = A.new_ACKs + 1
            /\ A'.windowfirst = (A.windowfirst + 1) % WINDOWSIZE
            /\ A'.windowcount = A.windowcount - 1
            /\ A'.windowcount = sent - A'.new_ACKs
            /\ A'.timer = (A'.windowcount > 0)
            /\ ~A'.timer_misuse]_vars

\* Six messages went out back to back (a seventh was refused by the full
\* window before any acknowledgment came in), nothing was lost, damaged or
\* resent, and the sixth acknowledgment has just emptied the window.
C11_Witness ==
  /\ Clean(A, faults)
  /\ sent = WINDOWSIZE
  /\ A.window_full = 1
  /\ B.packets_received = WINDOWSIZE
  /\ A.new_ACKs = WINDOWSIZE
  /\ A.trace = <<"uncorrupted ACK is received", "ACK is not a duplicate">>
  /\ A.windowcount = 0
  /\ ~A.timer

(***************************************************************************)
(* Further properties of the sender.                                       *)
(***************************************************************************)
\* The sequence number at the head of the window.
HeadSeq(s) == s.buffer[s.windowfirst].seqnum

\* An acknowledgment number that A_input records: a packet of the window
\* whose flag is not yet set.
Fresh(s, acknum) ==
  s.windowcount > 0 /\ acknum \in WindowSeqs(s) /\ ~s.acked[acknum]

\* The length of the longest run of packets, from the head of the window of
\* s, whose flag is set in flags.
AckedRun(s, flags) ==
  CHOOSE n \in 0..s.windowcount :
    /\ \A i \in 1..n : flags[WindowPkts(s)[i].seqnum]
    /\ n < s.windowcount => ~flags[WindowPkts(s)[n + 1].seqnum]

\* C12: A_input moves the window only when the acknowledgment it newly
\* records is for the head of the window; it then drops exactly the longest
\* run of flagged packets from the head and leaves the timer running exactly
\* when packets remain, having stopped a running timer and started a stopped
\* one.  A newly recorded acknowledgment for another packet of the window
\* sets that packet's flag and changes nothing else of the window or timer.
C12_SlideOnHeadAck ==
  \A acknum \in AckNums :
    LET once == A_input(A, AckPkt(acknum))
        flags == [A.acked EXCEPT ![acknum] = TRUE]
        n == AckedRun(A, flags)
    IN /\ (once.windowfirst # A.windowfirst
             \/ once.windowcount # A.windowcount
             \/ Timer(once) # Timer(A)) =>
            (Fresh(A, acknum) /\ acknum = HeadSeq(A))
       /\ (Fresh(A, acknum) /\ acknum = HeadSeq(A)) =>
            /\ n >= 1
            /\ once.windowcount = A.windowcount - n
            /\ once.windowfirst = (A.windowfirst + n) % WINDOWSIZE
            /\ once.acked = flags
            /\ once.timer = (once.windowcount > 0)
            /\ once.timer_misuse = A.timer_misuse
            /\ once.buffer = A.buffer
            /\ once.windowlast = A.windowlast
            /\ once.A_nextseqnum = A.A_nextseqnum
            /\ once.layer3 = <<>>
       /\ (Fresh(A, acknum) /\ acknum # HeadSeq(A)) =>
            /\ once.acked = flags
            /\ once.windowfirst = A.windowfirst
            /\ once.windowcount = A.windowcount
            /\ Timer(once) = Timer(A)
            /\ once.buffer = A.buffer
            /\ once.windowlast = A.windowlast
            /\ once.A_nextseqnum = A.A_nextseqnum
            /\ once.layer3 = <<>>

\* Packets 0..5 were sent and 0, 1, 3, 4, 5 acknowledged, the last of them
\* just now: the head is still packet 2 with four packets in the window.
C12_Witness ==
  /\ A.trace = <<"uncorrupted ACK is received", "ACK is not a duplicate">>
  /\ A.A_nextseqnum = 6
  /\ A.new_ACKs = 5
  /\ A.windowcount = 4
  /\ HeadSeq(A) = 2
  /\ ~A.acked[2]
  /\ A.acked[3] /\ A.acked[4] /\ A.acked[5]
  /\ A.timer

(***************************************************************************)
(* Further properties of A and B together.                                 *)
(***************************************************************************)
\* C13: when B waits for sequence number 3 and the head of A's window is the
\* packet of number 3, a damaged copy of that packet makes B answer with one
\* intact acknowledgment of number 2; A_input on that answer changes neither
\* the flags nor the window nor the timer and sends nothing; and the next
\* A_timerinterrupt resends the packet of number 3 first and restarts the
\* timer.
C13_CorruptedDataScenario ==
  (B.rcv_base = 3 /\ A.windowcount > 0 /\ HeadSeq(A) = 3) =>
    LET packet3 == A.buffer[A.windowfirst]
        b == B_input(B, Damaged(packet3))
        reply == b.layer3[1]
        a == A_input(A, reply)
        t == A_timerinterrupt([a EXCEPT !.timer = FALSE])
    IN /\ SentAck(b, 2)
       /\ Kept(b) = Kept(B)
       /\ Protocol(a) = Protocol(A)
       /\ Timer(a) = Timer(A)
       /\ a.layer3 = <<>>
       /\ A.timer
       /\ t.layer3 # <<>>
       /\ t.layer3[1] = packet3
       /\ Protocol(t) = Protocol(A)
       /\ t.timer

\* B, waiting for number 3, has answered a damaged packet, and A, whose head
\* is the packet of number 3 after the acknowledgments of 0..2, has just
\* processed that answer; the timer is still running.
C13_Witness ==
  /\ B.trace = <<"packet is corrupted, send NAK!">>
  /\ B.rcv_base = 3
  /\ passed = 3
  /\ B.layer3[1].acknum = 2
  /\ toA = <<>>
  /\ A.trace = <<"uncorrupted ACK is received">>
  /\ A.new_ACKs = 3
  /\ A.windowcount > 0
  /\ HeadSeq(A) = 3
  /\ A.timer

\* C14: a data packet that arrives at B and carries a message rcv_base has
\* already moved past has a sequence number outside the receive window; and
\* whenever a call of B_input marks, stores or delivers anything or moves
\* rcv_base, the packet it was given carries one of the next WINDOWSIZE
\* messages B has not yet passed, under that message's own sequence number.
C14_OldCopyOutsideWindow ==
  [][FromLayer3B =>
       LET packet == Head(toB) IN
       /\ MsgOf(packet) < passed => packet.seqnum \notin RcvWindow(B)
       /\ (\/ B'.received # B.received
           \/ B'.rcvbuffer # B.rcvbuffer
           \/ B'.rcv_base # B.rcv_base
           \/ B'.layer5 # <<>>) =>
            /\ MsgOf(packet) \in passed..(passed + WINDOWSIZE - 1)
            /\ packet.seqnum = MsgOf(packet) % SEQSPACE
            /\ B'.packets_received = B.packets_received + 1]_vars

\* After the sequence numbers wrapped around, a resent copy of the message
\* B passed last has just arrived intact and been acknowledged as a packet
\* outside the window.
C14_Witness ==
  /\ B.trace = <<"packet outside receive window, send ACK!">>
  /\ passed > SEQSPACE
  /\ B.layer3[1].acknum = (passed - 1) % SEQSPACE
  /\ A.packets_resent > 0

\* C15: under SpecFair every message A accepted eventually leaves A's window
\* and is eventually passed by rcv_base, and the window is empty again and
\* again.
C15_EveryMessageGetsThrough ==
  /\ \A m \in 0..(MaxFairMessages - 1) :
       (sent > m) ~> (sent - A.windowcount > m /\ passed > m)
  /\ []<>(A.windowcount = 0)

\* After losses or damage a timer expiry has resent packets, and since then
\* every accepted message has left the window and been passed by rcv_base.
C15_Witness ==
  /\ faults = MaxFaults
  /\ A.packets_resent > 1
  /\ sent = MaxFairMessages
  /\ A.windowcount = 0
  /\ passed = sent
  /\ ~A.timer

\* C16: whenever a call of A_input sets the flag of a packet of the window,
\* an uncorrupted copy of the message that packet carries has already reached
\* B; and every message that has left A's window has reached B uncorrupted.
C16_AckedOnlyIfReceived ==
  [][/\ FromLayer3A =>
          \A i \in 1..A.windowcount :
            LET packet == WindowPkts(A)[i] IN
            (~A.acked[packet.seqnum] /\ A'.acked[packet.seqnum]) =>
               MsgOf(packet) \in reached
     /\ \A m \in 0..(sent' - A'.windowcount - 1) : m \in reached']_vars

\* B passed message 0 and then answered a damaged packet with the number 0;
\* two packets were lost or damaged on the way, nothing is in flight, and the
\* one intact acknowledgment A ever got has just set the flag of packet 0.
C16_Witness ==
  /\ B.trace = <<"packet is corrupted, send NAK!">>
  /\ B.layer3[1].acknum = 0
  /\ passed = 1
  /\ faults = 2
  /\ toA = <<>>
  /\ A.trace = <<"uncorrupted ACK is received", "ACK is not a duplicate">>
  /\ A.total_ACKs_received = 1
  /\ A.new_ACKs = 1
  /\ A.acked[0]
  /\ A.packets_resent = 0

(***************************************************************************)
(* Invariants of the sender.                                               *)
(***************************************************************************)
\* C17: after A_init and after every call of A_output, A_input and
\* A_timerinterrupt the timer is running exactly when the window holds a
\* packet.
C17_TimerIffOutstanding == A.timer <=> (A.windowcount > 0)

\* An acknowledgment has just emptied a window that a timeout had resent,
\* and the timer is stopped.
C17_Witness ==
  /\ A.trace = <<"uncorrupted ACK is received", "ACK is not a duplicate">>
  /\ A.windowcount = 0
  /\ ~A.timer
  /\ A.packets_resent > 0
  /\ A.new_ACKs > 1

\* C18: after every call of a sender operation, the packet at the head of a
\* window that is not empty has its flag false.
C18_HeadNotAcked == A.windowcount > 0 => ~A.acked[HeadSeq(A)]

\* An acknowledgment for the head has just moved the window over several
\* flagged packets, up to a packet that is not flagged.
C18_Witness ==
  /\ A.trace = <<"uncorrupted ACK is received", "ACK is not a duplicate">>
  /\ A.windowcount > 0
  /\ ~A.acked[HeadSeq(A)]
  /\ A.acked[(HeadSeq(A) + SEQSPACE - 1) % SEQSPACE]
  /\ A.acked[(HeadSeq(A) + SEQSPACE - 2) % SEQSPACE]
  /\ A.windowfirst >= 2
  /\ A.new_ACKs = A.windowfirst

\* The packets of the window carry consecutive sequence numbers that end
\* one before A_nextseqnum.
ConsecutiveSeqs(s) ==
  \A i \in 1..s.windowcount :
    WindowPkts(s)[i].seqnum =
      (s.A_nextseqnum + SEQSPACE - s.windowcount + i - 1) % SEQSPACE

\* The buffer index of the last packet of a window that starts at
\* windowfirst and holds windowcount packets.
LastIndex(s) == (s.windowfirst + s.windowcount + WINDOWSIZE - 1) % WINDOWSIZE

\* Sequence numbers are given out in order: a message A_output accepts is
\* sent and stored, at the slot after windowlast, under A_nextseqnum, which
\* then moves on by one; a refused message and the other operations leave
\* A_nextseqnum, windowlast and the buffer alone.
SeqsInOrder ==
  /\ Send =>
       IF A.windowcount < WINDOWSIZE
         THEN /\ Len(A'.layer3) = 1
              /\ A'.layer3[1].seqnum = A.A_nextseqnum
              /\ A'.windowlast = (A.windowlast + 1) % WINDOWSIZE
              /\ A'.buffer = [A.buffer EXCEPT ![A'.windowlast] = A'.layer3[1]]
              /\ A'.A_nextseqnum = (A.A_nextseqnum + 1) % SEQSPACE
         ELSE /\ A'.A_nextseqnum = A.A_nextseqnum
              /\ A'.windowlast = A.windowlast
              /\ A'.buffer = A.buffer
  /\ ~Send =>
       /\ A'.A_nextseqnum = A.A_nextseqnum
       /\ A'.windowlast = A.windowlast
       /\ A'.buffer = A.buffer

\* C19 (as stated): after A_init and after every call of a sender operation
\* the packets of the window carry consecutive sequence numbers ending one
\* before A_nextseqnum, windowlast is the index (windowfirst + windowcount
\* - 1) mod WINDOWSIZE, and sequence numbers are given out from 0 in the
\* order of acceptance, none to a refused message.
C19_ContiguousWindow ==
  /\ A.A_nextseqnum = 0
  /\ [](ConsecutiveSeqs(A) /\ A.windowlast = LastIndex(A))
  /\ [][SeqsInOrder]_vars

\* C19 (amended): the same, except that windowlast is -1, not an index of the
\* buffer, from A_init until the first message is accepted (no packet in the
\* window and none acknowledged yet).
C19_ContiguousWindowOnceUsed ==
  /\ A.A_nextseqnum = 0
  /\ [](/\ ConsecutiveSeqs(A)
        /\ A.windowlast = IF A.new_ACKs + A.windowcount = 0
                            THEN -1 ELSE LastIndex(A))
  /\ [][SeqsInOrder]_vars

\* A window that wraps around the end of the buffer and of the sequence
\* space, after a message was refused.
C19_Witness ==
  /\ A.windowcount >= 2
  /\ A.windowfirst > A.windowlast
  /\ A.windowlast >= 0
  /\ HeadSeq(A) > A.buffer[A.windowlast].seqnum
  /\ A.window_full > 0

(***************************************************************************)
(* The array accesses of A_output, A_input and B_input.                    *)
(***************************************************************************)
\* The remainder of C: it has the sign of the dividend.
CRem(a, b) == IF a >= 0 THEN a % b ELSE -((-a) % b)

\* The numbers a packet may carry in seqnum or acknum: the sequence numbers,
\* the unused value, and values on both sides of them.
AnyNums == (NOTINUSE - 1)..(SEQSPACE + WINDOWSIZE + 1)

\* An uncorrupted data packet that carries the number seqnum.
AnyDataPkt(seqnum) == A_output_sendpkt(seqnum, Fill(1))

\* The indices at which A_output reads or writes buffer and acked.
A_output_buffer_indexes(s) ==
  IF A_output_notblocked(s) THEN {CRem(s.windowlast + 1, WINDOWSIZE)} ELSE {}

A_output_acked_indexes(s) ==
  IF A_output_notblocked(s) THEN {s.A_nextseqnum} ELSE {}

\* The indices at which A_input, given packet, reads or writes buffer and
\* acked: the two ends of the window, the positions the search loop visits,
\* the flag of acknum once a packet of that number is found, and the heads
\* the slide loop looks at (at most every packet of the window).
A_input_buffer_indexes(s, packet) ==
  IF IsCorrupted(packet) \/ s.windowcount = 0 THEN {}
  ELSE {s.windowfirst, s.windowlast}
         \cup (IF A_input_inwindow(s, packet)
                 THEN {CRem(s.windowfirst + i, WINDOWSIZE) :
                         i \in 0..(s.windowcount - 1)}
                 ELSE {})

A_input_acked_indexes(s, packet) ==
  IF IsCorrupted(packet) \/ s.windowcount = 0 THEN {}
  ELSE IF ~(s.windowfirst \in 0..(WINDOWSIZE - 1)
              /\ s.windowlast \in 0..(WINDOWSIZE - 1)) THEN {}
  ELSE IF ~A_input_inwindow(s, packet) THEN {}
  ELSE IF packet.acknum \notin WindowSeqs(s) THEN {}
  ELSE {packet.acknum}
         \cup (IF A_input_find(s, packet, 0).can_slide
                 THEN WindowSeqs(s) ELSE {})

\* The indices at which B_input, given packet, reads or writes received and
\* rcvbuffer: those of the packet it takes into the window, and those of the
\* delivery loop.
B_input_received_indexes(s, packet) ==
  IF Accepts(s, packet) THEN {packet.seqnum, s.rcv_base} ELSE {}

B_input_rcvbuffer_indexes(s, packet) ==
  IF Accepts(s, packet)
    THEN {CRem(packet.seqnum - s.rcv_base + SEQSPACE, SEQSPACE),
          CRem(s.rcv_base - s.rcv_base + SEQSPACE, SEQSPACE)}
    ELSE {}

\* C20: in every reachable state, whatever number an arriving packet carries,
\* A_output, A_input and B_input index buffer and rcvbuffer within
\* 0..WINDOWSIZE-1 and acked and received within 0..SEQSPACE-1; and the
\* delivery loop of B_input, given a packet with a sequence number, delivers
\* at most WINDOWSIZE payloads and stops at a number whose flag is false.
C20_AccessesInBounds ==
  /\ A_output_buffer_indexes(A) \subseteq 0..(WINDOWSIZE - 1)
  /\ A_output_acked_indexes(A) \subseteq 0..(SEQSPACE - 1)
  /\ \A acknum \in AnyNums :
       /\ A_input_buffer_indexes(A, AckPkt(acknum))
            \subseteq 0..(WINDOWSIZE - 1)
       /\ A_input_acked_indexes(A, AckPkt(acknum)) \subseteq 0..(SEQSPACE - 1)
  /\ \A seqnum \in AnyNums :
       /\ B_input_received_indexes(B, AnyDataPkt(seqnum))
            \subseteq 0..(SEQSPACE - 1)
       /\ B_input_rcvbuffer_indexes(B, AnyDataPkt(seqnum))
            \subseteq 0..(WINDOWSIZE - 1)
  /\ \A seqnum \in 0..(SEQSPACE - 1) :
       LET b == B_input(B, AnyDataPkt(seqnum)) IN
       /\ Len(b.layer5) <= WINDOWSIZE
       /\ ~b.received[b.rcv_base]
====
